---- MODULE Spec2Model ----
(***************************************************************************)
(* The four serverless proxy handlers of the repository:                   *)
(*   src/ai-proxy.js            Netlify, structured prompt, access token    *)
(*   src/unnamed/part_000       Netlify, passes the caller's messages on    *)
(*   src/api/ai-proxy.js  (1st) Vercel, structured prompt                   *)
(*   src/api/ai-proxy.js  (2nd) Vercel, raw passthrough                     *)
(* One inbound request is handled at a time; the handler suspends once, at *)
(* the await of the outbound fetch, and resumes with the upstream's answer. *)
(***************************************************************************)
EXTENDS Integers, Sequences, FiniteSets, TLC

(***************************************************************************)
(* Bounds of the model.                                                    *)
(***************************************************************************)
\* largest number of properties in a request body object
MaxFields == 3
\* number of inbound requests one process handles
MaxRequests == 1

(***************************************************************************)
(* JavaScript values.  A string is a text: a sequence of tokens.  A token  *)
(* is a word of ordinary characters, or one lexeme of JSON text.           *)
(***************************************************************************)
Undefined == [t |-> "undefined"]
Null == [t |-> "null"]
Str(text) == [t |-> "string", s |-> text]
Num(n) == [t |-> "number", n |-> n]
Arr(items) == [t |-> "array", items |-> items]
Obj(f) == [t |-> "object", f |-> f]
EmptyObj == Obj([k \in {} |-> Undefined])

W(w) == [k |-> "word", n |-> w]
P(c) == [k |-> "punct", n |-> c]
K(name) == [k |-> "key", n |-> name]
L(v) == [k |-> "lit", v |-> v]

Word(w) == Str(<<W(w)>>)
EmptyStr == Str(<<>>)

\* the outcome of an expression that may throw
Ok(v) == [threw |-> FALSE, val |-> v]
Throw(name, msg) == [threw |-> TRUE, name |-> name, val |-> msg]

\* !v
Falsy(v) ==
    \/ v.t \in {"undefined", "null"}
    \/ v.t = "string" /\ v.s = <<>>
    \/ v.t = "number" /\ v.n = 0

\* v.k ; reading a property of undefined or null throws a TypeError
Get(v, k) ==
    IF v.t \in {"undefined", "null"}
    THEN Throw("TypeError", Word("Cannot read properties of " \o v.t))
    ELSE IF v.t = "object" /\ k \in DOMAIN v.f THEN Ok(v.f[k]) ELSE Ok(Undefined)

\* v?.k
OptGet(v, k) ==
    IF v.t \in {"undefined", "null"} THEN Undefined ELSE Get(v, k).val

\* v?.[0]
OptFirst(v) ==
    IF v.t = "array" /\ Len(v.items) >= 1 THEN v.items[1] ELSE Undefined

\* s.startsWith(prefix)
StartsWith(v, prefix) ==
    v.t = "string" /\ Len(v.s) >= 1 /\ v.s[1] = W(prefix)

(***************************************************************************)
(* JSON.parse and JSON.stringify on texts.  The text of an object is       *)
(*   {  key : literal  ( , key : literal )*  }                             *)
(* and any other value is one literal lexeme.                              *)
(***************************************************************************)
KeyOrder == <<"department", "symptoms", "results", "language", "model", "messages",
              "response_format", "temperature", "max_tokens", "error", "details",
              "choices", "message", "content", "medical_analysis",
              "suggested_ivd_tests">>

MemberAt(m, i) ==
    CASE i % 4 = 1 -> m[i].k = "key"
      [] i % 4 = 2 -> m[i] = P(":")
      [] i % 4 = 3 -> m[i].k = "lit"
      [] OTHER -> m[i] = P(",")

Members(m) ==
    \/ Len(m) = 0
    \/ Len(m) % 4 = 3 /\ \A i \in 1..Len(m) : MemberAt(m, i)

KeysOf(m) == {m[i].n : i \in {j \in 1..Len(m) : j % 4 = 1}}

\* a repeated key keeps its last value
LastOf(m, key) ==
    LET at == {j \in 1..Len(m) : j % 4 = 1 /\ m[j].n = key}
        i == CHOOSE j \in at : \A h \in at : h <= j
    IN m[i + 2].v

ParseText(text) ==
    IF Len(text) = 1 /\ text[1].k = "lit"
    THEN Ok(text[1].v)
    ELSE IF /\ Len(text) >= 2
            /\ text[1] = P("{")
            /\ text[Len(text)] = P("}")
            /\ Members(SubSeq(text, 2, Len(text) - 1))
         THEN LET m == SubSeq(text, 2, Len(text) - 1)
              IN Ok(Obj([key \in KeysOf(m) |-> LastOf(m, key)]))
         ELSE Throw("SyntaxError", Word("Unexpected token in JSON"))

\* JSON.parse(v): the argument is converted to a string first
JSONparse_Mut(v) ==
    CASE v.t = "string" /\ v.s # <<>> -> ParseText(v.s)
      [] v.t \in {"null", "number"} -> Ok(v)
      [] OTHER -> Ok(EmptyObj)
JSONparse(v) ==
    CASE v.t = "string" -> ParseText(v.s)
      [] v.t \in {"null", "number"} -> Ok(v)
      [] OTHER -> Throw("SyntaxError", Word("Unexpected token in JSON"))

RECURSIVE StringifyFrom(_, _)
StringifyFrom(f, i) ==
    IF i > Len(KeyOrder) THEN <<>>
    ELSE LET key == KeyOrder[i]
             rest == StringifyFrom(f, i + 1)
         IN IF key \in DOMAIN f /\ f[key].t # "undefined"
            THEN <<K(key), P(":"), L(f[key])>>
                 \o (IF rest = <<>> THEN <<>> ELSE <<P(",")>> \o rest)
            ELSE rest

\* JSON.stringify(v): properties whose value is undefined are left out
JSONstringify(v) ==
    IF v.t = "object"
    THEN Str(<<P("{")>> \o StringifyFrom(v.f, 1) \o <<P("}")>>)
    ELSE Str(<<L(v)>>)

\* does the value mention the word w anywhere inside it
RECURSIVE Mentions(_, _)
MentionsText(text, w) ==
    \E i \in 1..Len(text) :
        \/ text[i] = W(w)
        \/ text[i].k = "lit" /\ Mentions(text[i].v, w)

Mentions(v, w) ==
    CASE v.t = "string" -> MentionsText(v.s, w)
      [] v.t = "array" -> \E i \in 1..Len(v.items) : Mentions(v.items[i], w)
      [] v.t = "object" -> \E key \in DOMAIN v.f : Mentions(v.f[key], w)
      [] OTHER -> FALSE

\* `...${v}...` : the text a value contributes to a template literal
ToText(v) ==
    CASE v.t = "string" -> v.s
      [] v.t = "undefined" -> <<W("undefined")>>
      [] v.t = "null" -> <<W("null")>>
      [] OTHER -> <<L(v)>>

(***************************************************************************)
(* Process configuration and inbound requests.                             *)
(***************************************************************************)
\* a value of the OPENAI_API_KEY environment variable
CredentialWord == "sk-live-credential"
Credential == Word(CredentialWord)
EnvValues == {Undefined, EmptyStr, Credential}

Variants == {"netlify_structured", "netlify_messages", "vercel_structured",
             "vercel_passthrough"}

Methods == {"POST", "OPTIONS", "GET"}

AccessTokens == {Undefined, EmptyStr, Str(<<W("token-"), W("abc123")>>),
                 Str(<<W("guest-"), W("abc123")>>)}

BodyKeys == {"symptoms", "results", "model", "messages", "response_format"}

FieldVals(key) ==
    CASE key = "symptoms" -> {EmptyStr, Word("fever and cough")}
      [] key = "results" -> {EmptyStr, Word("CRP 40 mg/L")}
      [] key = "model" -> {Word("gpt-4o")}
      [] key = "messages" -> {Arr(<<Obj([role |-> Word("user"), content |-> Word("hello")])>>)}
      [] OTHER -> {Obj([type |-> Word("json_object")])}

AllFieldVals == UNION {FieldVals(key) : key \in BodyKeys}

BodyObjects ==
    UNION {{Obj(f) : f \in {g \in [S -> AllFieldVals] : \A key \in S : g[key] \in FieldVals(key)}} :
           S \in {T \in SUBSET BodyKeys : Cardinality(T) <= MaxFields}}

WellFormedTexts ==
    {JSONstringify(o).s : o \in BodyObjects}
        \cup {<<L(Null)>>, <<L(Word("fever"))>>, <<L(Num(0))>>}

\* a body cut short in transit, or not JSON at all
MalformedTexts ==
    {t \in UNION {{SubSeq(text, 1, n) : n \in 0..(Len(text) - 1)} : text \in WellFormedTexts} :
        ParseText(t).threw}
        \cup {<<W("symptoms=fever")>>}

\* what the platform hands over as the request body: a text, or nothing
RawBodies == {Str(t) : t \in WellFormedTexts \cup MalformedTexts} \cup {Undefined, Null}

ContentTypes == {"application/json", "text/plain"}

Requests ==
    [httpMethod : Methods, token : AccessTokens, contentType : ContentTypes, body : RawBodies]

(***************************************************************************)
(* The upstream's answers to one outbound call.                            *)
(***************************************************************************)
Statuses == {200, 429}

StatusText(status) == IF status = 200 THEN "OK" ELSE "Too Many Requests"

Choice(message) == Arr(<<Obj([message |-> message])>>)

AnalysisText == JSONstringify(Obj([medical_analysis |-> Word("x"),
                                   suggested_ivd_tests |-> Arr(<<Word("a"), Word("b")>>)]))

\* bodies the upstream may send; auth is the Authorization header it was sent
UpstreamValues(auth) ==
    { EmptyObj,
      Obj([error |-> Obj([message |-> Word("Rate limit reached")])]),
      Obj([error |-> Obj([message |-> Str(<<W("Incorrect API key provided: ")>> \o auth)])]),
      Obj([error |-> EmptyObj]),
      Obj([error |-> Word("overloaded")]),
      Obj([choices |-> Arr(<<>>)]),
      Obj([choices |-> Choice(EmptyObj)]),
      Obj([choices |-> Choice(Obj([content |-> EmptyStr]))]),
      Obj([choices |-> Choice(Obj([content |-> AnalysisText]))]),
      Obj([choices |-> Choice(Obj([content |-> Word("I am sorry, I cannot help.")]))]) }

UpstreamTexts(auth) ==
    {JSONstringify(v).s : v \in UpstreamValues(auth)}
        \cup {<<L(Null)>>, <<W("<html>Bad Gateway</html>")>>}

\* fetch() resolves with a response, or rejects with an error
Replies(auth) ==
    [kind : {"response"}, status : Statuses, text : UpstreamTexts(auth)]
        \cup {[kind |-> "error", message |-> m] :
                m \in {Word("request to upstream failed, reason: ECONNRESET"),
                       Str(auth \o <<W(" is not a legal HTTP header value")>>)}}

\* response.ok
IsOk(reply) == reply.status >= 200 /\ reply.status <= 299

\* await response.json()
ResponseJson(reply) == JSONparse(Str(reply.text))

\* await response.text()
ResponseText(reply) == Str(reply.text)

(***************************************************************************)
(* What a handler does up to its next suspension point: it returns a       *)
(* response, calls fetch, or throws out of the handler.                    *)
(***************************************************************************)
Respond(status, headers, body) ==
    [step |-> "respond", status |-> status, headers |-> headers, body |-> body]
Fetch(auth, payload) ==
    [step |-> "fetch", auth |-> auth, payload |-> payload]
Reject(err) == [step |-> "reject", error |-> err]

ErrorBody(msg) == JSONstringify(Obj([error |-> msg]))
ErrorDetails(msg, details) == JSONstringify(Obj([error |-> msg, details |-> details]))

ContentType == <<"Content-Type", "application/json">>

\* data.choices?.[0]?.message?.content
GeneratedContent(data) ==
    LET choices == Get(data, "choices")
    IN IF choices.threw THEN choices
       ELSE Ok(OptGet(OptGet(OptFirst(choices.val), "message"), "content"))

\* !apiKey : the credential check of every handler
KeyMissing_Mut(key) == key.t = "undefined"
KeyMissing(key) == Falsy(key)

\* httpMethod !== 'POST' : the method check of every handler
NotPost_Mut(method) == method \notin {"POST", "GET"}
NotPost(method) == method # "POST"

\* !symptoms && !results : the structured-prompt handlers' field check
NothingSupplied_Mut(symptoms, results) == Falsy(symptoms) \/ Falsy(results)
NothingSupplied(symptoms, results) == Falsy(symptoms) /\ Falsy(results)

(***************************************************************************)
(* src/ai-proxy.js                                                         *)
(***************************************************************************)
NS_SystemInstruction(language) ==
    Str(<<W("You are a world-class AI diagnostic expert system. Respond ONLY in: ")>>
        \o ToText(language))

NS_UserPrompt(department, symptoms, results) ==
    Str(<<W("Department/Additional Info: ")>> \o ToText(department)
        \o <<W("Symptoms/Chief Complaint: ")>> \o ToText(symptoms)
        \o <<W("Clinical History/Test Results: ")>> \o ToText(results))

NS_Payload(clientPayload) ==
    Obj([model |-> Word("gpt-4o-mini"),
         response_format |-> Obj([type |-> Word("json_object")]),
         temperature |-> Num(2),   \* 0.2, in tenths
         messages |-> Arr(<<
            Obj([role |-> Word("system"),
                 content |-> NS_SystemInstruction(Get(clientPayload, "language").val)]),
            Obj([role |-> Word("user"),
                 content |-> NS_UserPrompt(Get(clientPayload, "department").val,
                                           Get(clientPayload, "symptoms").val,
                                           Get(clientPayload, "results").val)])>>)])

NS_TokenRejected(accessToken) ==
    Falsy(accessToken) \/ ~StartsWith(accessToken, "token-")

NS_Begin(event, key) ==
    IF NotPost(event.httpMethod)
    THEN Respond(405, {}, ErrorBody(Word("Method Not Allowed")))
    ELSE IF KeyMissing(key)
    THEN Respond(500, {}, ErrorBody(Word("Server configuration error: API Key missing.")))
    ELSE IF NS_TokenRejected(event.token)
    THEN Respond(401, {}, ErrorBody(Word("Unauthorized: Missing or invalid access token.")))
    ELSE LET parsed == JSONparse(event.body)
         IN IF parsed.threw
            THEN Respond(400, {}, ErrorBody(Word("Invalid JSON payload.")))
            ELSE LET symptoms == Get(parsed.val, "symptoms")
                     results == Get(parsed.val, "results")
                 IN IF symptoms.threw
                    THEN Reject(symptoms)
                    ELSE IF NothingSupplied(symptoms.val, results.val)
                    THEN Respond(400, {},
                                 ErrorBody(Word("Symptoms or test results must be provided.")))
                    ELSE Fetch(<<W("Bearer ")>> \o key.s,
                               JSONstringify(NS_Payload(parsed.val)))

NS_Catch(message) ==
    Respond(500, {},
            ErrorBody(Str(<<W("Server failed to communicate with OpenAI: ")>> \o ToText(message))))

NS_Resume(reply) ==
    IF reply.kind = "error"
    THEN NS_Catch(reply.message)
    ELSE LET openaiData == ResponseJson(reply)
         IN IF openaiData.threw
            THEN NS_Catch(openaiData.val)
            ELSE IF ~IsOk(reply)
            THEN LET err == Get(openaiData.val, "error")
                 IN IF err.threw
                    THEN NS_Catch(err.val)
                    ELSE Respond(reply.status, {},
                            ErrorDetails(Word("OpenAI API failed to process the request."),
                                         IF Falsy(err.val) THEN Word("Unknown error.")
                                         ELSE Get(err.val, "message").val))
            ELSE LET generatedJsonString == GeneratedContent(openaiData.val)
                 IN IF generatedJsonString.threw
                    THEN NS_Catch(generatedJsonString.val)
                    ELSE IF Falsy(generatedJsonString.val)
                    THEN Respond(500, {}, ErrorBody(Word("OpenAI response format unexpected.")))
                    ELSE Respond(200, {ContentType}, generatedJsonString.val)

(***************************************************************************)
(* src/unnamed/part_000                                                    *)
(***************************************************************************)
NM_Payload(messages) ==
    Obj([model |-> Word("gpt-4o-mini"),
         response_format |-> Obj([type |-> Word("json_object")]),
         messages |-> messages,
         temperature |-> Num(1),   \* 0.1, in tenths
         max_tokens |-> Num(2000)])

NM_Begin(event, key) ==
    IF KeyMissing(key)
    THEN Respond(500, {},
                 ErrorBody(Word("Server configuration error: OpenAI API Key not found.")))
    ELSE IF NotPost(event.httpMethod)
    THEN Respond(405, {}, Word("Method Not Allowed"))
    ELSE LET clientData == JSONparse(event.body)
         IN IF clientData.threw
            THEN Respond(400, {}, ErrorBody(Word("Invalid JSON format in request body.")))
            ELSE LET messages == Get(clientData.val, "messages")
                 IN IF messages.threw
                    THEN Reject(messages)
                    ELSE Fetch(<<W("Bearer ")>> \o key.s,
                               JSONstringify(NM_Payload(messages.val)))

NM_Catch ==
    Respond(502, {},
            ErrorBody(Word("AI analysis failed due to an internal server connection error.")))

NM_Resume(reply) ==
    IF reply.kind = "error"
    THEN NM_Catch
    ELSE IF ~IsOk(reply)
    THEN LET errorBody == ResponseJson(reply)
         IN IF errorBody.threw \/ Get(errorBody.val, "error").threw
               \/ Get(Get(errorBody.val, "error").val, "message").threw
            THEN NM_Catch
            ELSE Respond(reply.status, {},
                    ErrorDetails(Str(<<W("OpenAI API Error: "), W(StatusText(reply.status))>>),
                                 Get(Get(errorBody.val, "error").val, "message").val))
    ELSE LET data == ResponseJson(reply)
         IN IF data.threw
            THEN NM_Catch
            ELSE Respond(200, {<<"Access-Control-Allow-Origin", "*">>, ContentType},
                         JSONstringify(data.val))

(***************************************************************************)
(* src/api/ai-proxy.js : what both handlers share with the platform        *)
(***************************************************************************)
CorsHeaders ==
    {<<"Access-Control-Allow-Origin", "*">>,
     <<"Access-Control-Allow-Methods", "POST, OPTIONS">>,
     <<"Access-Control-Allow-Headers", "Content-Type, Authorization">>}

\* res.status(status).json(value)
ResJson(status, value) == Respond(status, CorsHeaders \cup {ContentType}, JSONstringify(value))

\* res.status(status).end()
ResEnd(status) == Respond(status, CorsHeaders, Undefined)

\* req.body : the platform parses a JSON body when it is read, and throws on
\* text that is not JSON; a body of another content type is handed over as is
ReqBody(req) ==
    IF req.body.t = "string" /\ req.contentType = "application/json"
    THEN LET parsed == ParseText(req.body.s)
         IN IF parsed.threw THEN Throw("ApiError", Word("Invalid JSON")) ELSE parsed
    ELSE IF req.body.t = "string" THEN Ok(req.body) ELSE Ok(Undefined)

KeyMissingBody ==
    Obj([error |-> Word("Server configuration error: OpenAI API Key is missing."),
         details |-> Word("Set OPENAI_API_KEY in Vercel environment variables.")])

(***************************************************************************)
(* src/api/ai-proxy.js, first handler                                      *)
(***************************************************************************)
VS_SystemPrompt(department, symptoms, results, language) ==
    Str(<<W("You are an expert AI diagnostic assistant. Language: ")>> \o ToText(language)
        \o <<W("Department/Additional Info: ")>> \o ToText(department)
        \o <<W("Symptoms/Complaints: ")>> \o ToText(symptoms)
        \o <<W("Clinical History/Test Results: ")>> \o ToText(results))

VS_Payload(body) ==
    Obj([model |-> Word("gpt-4-turbo-preview"),
         messages |-> Arr(<<
            Obj([role |-> Word("system"),
                 content |-> VS_SystemPrompt(Get(body, "department").val,
                                             Get(body, "symptoms").val,
                                             Get(body, "results").val,
                                             Get(body, "language").val)]),
            Obj([role |-> Word("user"),
                 content |-> Word("Please perform the medical analysis now.")])>>),
         response_format |-> Obj([type |-> Word("json_object")])])

VS_Catch(message) ==
    ResJson(500, Obj([error |-> Word("Internal Server Error during execution."),
                      details |-> message]))

VS_Begin(req, key) ==
    IF req.httpMethod = "OPTIONS"
    THEN ResEnd(200)
    ELSE IF KeyMissing(key)
    THEN ResJson(401, KeyMissingBody)
    ELSE IF NotPost(req.httpMethod)
    THEN ResJson(405, Obj([error |-> Word("Method Not Allowed")]))
    ELSE LET body == ReqBody(req)
         IN IF body.threw
            THEN VS_Catch(body.val)
            ELSE LET symptoms == Get(body.val, "symptoms")
                     results == Get(body.val, "results")
                 IN IF symptoms.threw
                    THEN VS_Catch(symptoms.val)
                    ELSE IF NothingSupplied(symptoms.val, results.val)
                    THEN ResJson(400, Obj([error |->
                            Word("Bad Request: Symptoms or test results are required.")]))
                    ELSE Fetch(<<W("Bearer ")>> \o key.s,
                               JSONstringify(VS_Payload(body.val)))

VS_Resume(reply) ==
    IF reply.kind = "error"
    THEN VS_Catch(reply.message)
    ELSE IF ~IsOk(reply)
    THEN ResJson(reply.status, Obj([error |-> Word("OpenAI API request failed."),
                                    details |-> ResponseText(reply)]))
    ELSE LET data == ResponseJson(reply)
         IN IF data.threw
            THEN VS_Catch(data.val)
            ELSE LET generatedJsonText == GeneratedContent(data.val)
                 IN IF generatedJsonText.threw
                    THEN VS_Catch(generatedJsonText.val)
                    ELSE IF Falsy(generatedJsonText.val)
                    THEN ResJson(500, Obj([error |->
                            Word("AI response format error: Generated content is empty or malformed.")]))
                    ELSE LET finalResult == JSONparse(generatedJsonText.val)
                         IN IF finalResult.threw
                            THEN VS_Catch(finalResult.val)
                            ELSE ResJson(200, finalResult.val)

(***************************************************************************)
(* src/api/ai-proxy.js, second handler                                     *)
(***************************************************************************)
VP_Payload(model, messages, response_format) ==
    Obj([model |-> model, messages |-> messages, response_format |-> response_format])

VP_Catch(message) ==
    ResJson(500, Obj([error |-> Word("Internal Server Error during execution."),
                      details |-> message]))

VP_Begin(req, key) ==
    IF req.httpMethod = "OPTIONS"
    THEN ResEnd(200)
    ELSE IF KeyMissing(key)
    THEN ResJson(401, KeyMissingBody)
    ELSE IF NotPost(req.httpMethod)
    THEN ResJson(405, Obj([error |-> Word("Method Not Allowed")]))
    ELSE LET body == ReqBody(req)
         IN IF body.threw
            THEN VP_Catch(body.val)
            ELSE LET model == Get(body.val, "model")
                     messages == Get(body.val, "messages")
                     response_format == Get(body.val, "response_format")
                 IN IF model.threw
                    THEN VP_Catch(model.val)
                    ELSE IF Falsy(model.val) \/ Falsy(messages.val) \/ Falsy(response_format.val)
                    THEN ResJson(400, Obj([error |->
                            Word("Bad Request: Missing required fields (model, messages, or response_format).")]))
                    ELSE Fetch(<<W("Bearer ")>> \o key.s,
                               JSONstringify(VP_Payload(model.val, messages.val,
                                                        response_format.val)))

VP_Resume(reply) ==
    IF reply.kind = "error"
    THEN VP_Catch(reply.message)
    ELSE IF ~IsOk(reply)
    THEN ResJson(reply.status, Obj([error |-> Word("OpenAI API request failed."),
                                    details |-> ResponseText(reply)]))
    ELSE LET data == ResponseJson(reply)
         IN IF data.threw
            THEN VP_Catch(data.val)
            ELSE LET generatedJsonText == GeneratedContent(data.val)
                 IN IF generatedJsonText.threw
                    THEN VP_Catch(generatedJsonText.val)
                    ELSE IF Falsy(generatedJsonText.val)
                    THEN ResJson(500, Obj([error |->
                            Word("AI response format error: Generated content is empty or malformed.")]))
                    ELSE LET finalResult == JSONparse(generatedJsonText.val)
                         IN IF finalResult.threw
                            THEN VP_Catch(finalResult.val)
                            ELSE ResJson(200, finalResult.val)

(***************************************************************************)
(* The state of one deployed handler.                                      *)
(***************************************************************************)
VARIABLES
    variant,     \* which of the four handlers is deployed
    apiKey,      \* process.env.OPENAI_API_KEY
    pc,          \* "idle", "awaiting" (the fetch), "responded" or "rejected"
    event,       \* the inbound request being handled
    fetchCalls,  \* outbound calls made for this request
    outbound,    \* the outbound request: Authorization header and body
    reply,       \* what the upstream answered
    res,         \* the response returned to the caller
    responses,   \* responses the handler returned for this request
    handled      \* inbound requests taken so far

vars == <<variant, apiKey, pc, event, fetchCalls, outbound, reply, res, responses, handled>>

NoEvent == [httpMethod |-> "none"]
NoFetch == [auth |-> <<>>, payload |-> Undefined]
NoReply == [kind |-> "none"]
NoResponse == [status |-> 0, headers |-> {}, body |-> Undefined]

Init ==
    /\ variant \in Variants
    /\ apiKey \in EnvValues
    /\ pc = "idle"
    /\ event = NoEvent
    /\ fetchCalls = 0
    /\ outbound = NoFetch
    /\ reply = NoReply
    /\ res = NoResponse
    /\ responses = 0
    /\ handled = 0

\* the handler ran up to a return, a fetch or an uncaught throw
Settle(outcome) ==
    CASE outcome.step = "respond" ->
            /\ pc' = "responded"
            /\ res' = [status |-> outcome.status, headers |-> outcome.headers,
                       body |-> outcome.body]
            /\ responses' = responses + 1
            /\ UNCHANGED <<fetchCalls, outbound>>
      [] outcome.step = "fetch" ->
            /\ pc' = "awaiting"
            /\ fetchCalls' = fetchCalls + 1
            /\ outbound' = [auth |-> outcome.auth, payload |-> outcome.payload]
            /\ UNCHANGED <<res, responses>>
      [] OTHER ->
            /\ pc' = "rejected"
            /\ UNCHANGED <<fetchCalls, outbound, res, responses>>

\* the platform invokes the deployed handler with one inbound request
Invoked(name) == variant = name /\ pc = "idle" /\ handled < MaxRequests

\* the awaited fetch of the deployed handler settles
Awaiting(name) == variant = name /\ pc = "awaiting"

Invoke(e, outcome) ==
    /\ event' = e
    /\ handled' = handled + 1
    /\ Settle(outcome)
    /\ UNCHANGED <<variant, apiKey, reply>>

Continue(r, outcome) ==
    /\ reply' = r
    /\ Settle(outcome)
    /\ UNCHANGED <<variant, apiKey, event, handled>>

NS_Handler ==
    Invoked("netlify_structured") /\ \E e \in Requests : Invoke(e, NS_Begin(e, apiKey))
NS_Upstream ==
    Awaiting("netlify_structured")
        /\ \E r \in Replies(outbound.auth) : Continue(r, NS_Resume(r))

NM_Handler ==
    Invoked("netlify_messages") /\ \E e \in Requests : Invoke(e, NM_Begin(e, apiKey))
NM_Upstream ==
    Awaiting("netlify_messages")
        /\ \E r \in Replies(outbound.auth) : Continue(r, NM_Resume(r))

VS_Handler ==
    Invoked("vercel_structured") /\ \E e \in Requests : Invoke(e, VS_Begin(e, apiKey))
VS_Upstream ==
    Awaiting("vercel_structured")
        /\ \E r \in Replies(outbound.auth) : Continue(r, VS_Resume(r))

VP_Handler ==
    Invoked("vercel_passthrough") /\ \E e \in Requests : Invoke(e, VP_Begin(e, apiKey))
VP_Upstream ==
    Awaiting("vercel_passthrough")
        /\ \E r \in Replies(outbound.auth) : Continue(r, VP_Resume(r))

\* the invocation is over; nothing of it is kept for the next one
NextRequest ==
    /\ pc \in {"responded", "rejected"}
    /\ pc' = "idle"
    /\ event' = NoEvent
    /\ fetchCalls' = 0
    /\ outbound' = NoFetch
    /\ reply' = NoReply
    /\ res' = NoResponse
    /\ responses' = 0
    /\ UNCHANGED <<variant, apiKey, handled>>

Next ==
    \/ NS_Handler \/ NS_Upstream
    \/ NM_Handler \/ NM_Upstream
    \/ VS_Handler \/ VS_Upstream
    \/ VP_Handler \/ VP_Upstream
    \/ NextRequest

Spec == Init /\ [][Next]_vars

(***************************************************************************)
(* Vocabulary of the properties.                                           *)
(***************************************************************************)
Vercel == variant \in {"vercel_structured", "vercel_passthrough"}
Structured == variant \in {"netlify_structured", "vercel_structured"}
Started == pc # "idle"
Responded == pc = "responded"

\* the status each variant uses for a missing credential
ConfigErrorStatus == IF Vercel THEN 401 ELSE 500

\* a body that is not JSON text: cut short, not JSON at all, or not there
Malformed(body) ==
    \/ body.t = "undefined"
    \/ body.t = "string" /\ ParseText(body.s).threw

\* the object the handler reads its fields from, when the body is one
BodyObject ==
    IF event.body.t = "string" /\ ~ParseText(event.body.s).threw
    THEN ParseText(event.body.s).val
    ELSE Undefined

\* a POST the handler's earlier checks let through, carrying a JSON object
ValidPost ==
    /\ Started
    /\ event.httpMethod = "POST"
    /\ ~Falsy(apiKey)
    /\ variant = "netlify_structured" => ~NS_TokenRejected(event.token)
    /\ Vercel => event.contentType = "application/json"
    /\ BodyObject.t = "object"

Supplied(key) == ~Falsy(Get(BodyObject, key).val)

C2_Preflight ==
    (Started /\ event.httpMethod = "OPTIONS") =>
        /\ Responded
        /\ res.status = 200
        /\ res.body = Undefined
        /\ CorsHeaders \subseteq res.headers
        /\ fetchCalls = 0

(***************************************************************************)
(* C3.  As claimed: a method that is neither POST nor OPTIONS is answered  *)
(* 405 whatever the configuration, and causes no outbound call.            *)
(***************************************************************************)
C3_OtherMethod405 ==
    (Started /\ event.httpMethod \notin {"POST", "OPTIONS"}) =>
        /\ Responded
        /\ res.status = 405
        /\ fetchCalls = 0

(***************************************************************************)
(* C3, amended.  A method that is neither POST nor OPTIONS never causes an *)
(* outbound call and is answered 405 when the credential is configured,    *)
(* and in src/ai-proxy.js also when it is not; the other handlers answer   *)
(* it with the configuration-error status when the credential is missing.  *)
(***************************************************************************)
C3_OtherMethod ==
    (Started /\ event.httpMethod \notin {"POST", "OPTIONS"}) =>
        /\ Responded
        /\ fetchCalls = 0
        /\ res.status =
             (IF ~Falsy(apiKey) \/ variant = "netlify_structured"
              THEN 405 ELSE ConfigErrorStatus)

C3_Witness ==
    /\ Responded
    /\ event.httpMethod = "GET"
    /\ ~Falsy(apiKey)
    /\ res.status = 405
    /\ fetchCalls = 0

UpstreamFailed == reply.kind = "response" /\ ~IsOk(reply)
UpstreamSucceeded == reply.kind = "response" /\ IsOk(reply)

\* choices[0].message.content of the upstream's answer, undefined when absent
UpstreamContent ==
    IF reply.kind # "response" \/ ResponseJson(reply).threw
    THEN Undefined
    ELSE LET content == GeneratedContent(ResponseJson(reply).val)
         IN IF content.threw THEN Undefined ELSE content.val

\* the response body read back as an object with the given properties
IsEnvelope(body, keys) ==
    /\ body.t = "string"
    /\ ~ParseText(body.s).threw
    /\ ParseText(body.s).val.t = "object"
    /\ keys \subseteq DOMAIN ParseText(body.s).val.f

(***************************************************************************)
(* C5.  An upstream failure status is relayed to the caller unchanged,     *)
(* with an {error, details} envelope, after one outbound call and no       *)
(* retry, whatever the upstream's error body is.                           *)
(***************************************************************************)
C5_FailureRelayed ==
    (Responded /\ UpstreamFailed) =>
        /\ res.status = reply.status
        /\ IsEnvelope(res.body, {"error", "details"})
        /\ fetchCalls = 1

(***************************************************************************)
(* C6.  An upstream success whose choices[0].message.content is absent or  *)
(* empty is answered 500, never 200.                                       *)
(***************************************************************************)
C6_EmptyContent500 ==
    (Responded /\ UpstreamSucceeded /\ ~ResponseJson(reply).threw /\ Falsy(UpstreamContent)) =>
        res.status = 500

(***************************************************************************)
(* C7.  No response carries the credential, in its headers or its body.    *)
(***************************************************************************)
C7_CredentialNeverReturned ==
    Responded =>
        /\ ~Mentions(res.body, CredentialWord)
        /\ \A h \in res.headers : h[1] # CredentialWord /\ h[2] # CredentialWord

(***************************************************************************)
(* C8.  In the structured-prompt handlers a POST that is valid so far is   *)
(* answered 400 without an outbound call when its body gives neither       *)
(* symptoms nor results a non-empty value, and causes exactly one outbound *)
(* call when it gives one of the two and not the other.                    *)
(***************************************************************************)
C8_SymptomsOrResults ==
    (ValidPost /\ Structured) =>
        /\ (~Supplied("symptoms") /\ ~Supplied("results")) =>
                Responded /\ res.status = 400 /\ fetchCalls = 0
        /\ (Supplied("symptoms") # Supplied("results")) =>
                pc \in {"awaiting", "responded"} /\ fetchCalls = 1

C8_Witness ==
    /\ ValidPost /\ Structured
    /\ ~Supplied("symptoms") /\ Supplied("results")
    /\ pc = "responded"
    /\ reply.kind = "response"
    /\ fetchCalls = 1

(***************************************************************************)
(* C9.  In the passthrough handlers a POST that is valid so far and whose  *)
(* body omits model, messages or response_format is answered 400 without   *)
(* an outbound call.                                                       *)
(***************************************************************************)
C9_MissingField400 ==
    (/\ ValidPost
     /\ ~Structured
     /\ \E key \in {"model", "messages", "response_format"} : key \notin DOMAIN BodyObject.f) =>
        Responded /\ res.status = 400 /\ fetchCalls = 0

(***************************************************************************)
(* C10.  An upstream success whose content is a non-empty string that is   *)
(* not JSON is never answered 200; the request ends with a 500 or a 502.   *)
(***************************************************************************)
C10_NonJsonContentIsError ==
    (/\ Responded
     /\ UpstreamSucceeded
     /\ UpstreamContent.t = "string"
     /\ ~Falsy(UpstreamContent)
     /\ JSONparse(UpstreamContent).threw) =>
        res.status \in {500, 502}

\* the request passed every check its handler makes before the outbound call
Validated ==
    /\ ValidPost
    /\ Structured => Supplied("symptoms") \/ Supplied("results")
    /\ variant = "vercel_passthrough" =>
            Supplied("model") /\ Supplied("messages") /\ Supplied("response_format")

\* the handler is through with the request
Ended == pc \in {"responded", "rejected"}

(***************************************************************************)
(* C11.  One inbound request never causes more than one outbound call, a   *)
(* request that passes every validation step causes exactly one, and every *)
(* request ends with exactly one response.                                 *)
(***************************************************************************)
C11_OneCallOneResponse ==
    /\ fetchCalls <= 1
    /\ Validated => fetchCalls = 1
    /\ responses <= 1
    /\ Ended => responses = 1

\* the part of C11 about outbound calls alone
C11_CallsOnly ==
    /\ fetchCalls <= 1
    /\ Validated => fetchCalls = 1
    /\ responses <= 1

====
